---- MODULE Spec2Model ----
(***************************************************************************)
(* fcp: a recursive, parallel file copier (src/src/lib.rs).                *)
(*                                                                         *)
(* The model has three layers.                                             *)
(*   1. Paths and the filesystem collaborator (crate::filesystem, taken    *)
(*      from the specification): lstat, open, create, mkdir, symlink,      *)
(*      mkfifo and read_dir over a finite map from absolute paths to       *)
(*      nodes.                                                             *)
(*   2. The dispatch engine of lib.rs: fcp, copy_many, copy_file,          *)
(*      copy_file_impl, copy_directory, one action per filesystem call.    *)
(*   3. The rayon fan-out: one task per directory entry / per source,      *)
(*      interleaved freely, reduced with ParallelIterator::any.            *)
(***************************************************************************)
EXTENDS Naturals, Integers, Sequences, FiniteSets, Bags, TLC

(***************************************************************************)
(* Bounds of the model.                                                    *)
(***************************************************************************)
\* Longest absolute path (in components) the filesystem accepts; a longer
\* path fails like ENAMETOOLONG.
MaxDepth == 5
\* Symbolic links followed during one path resolution before ELOOP.
MaxHops == 2
\* Entries of the generated source directory.
MaxEntries == 2
\* Sources of a multi-source invocation.
MaxSources == 2

(***************************************************************************)
(* Paths: sequences of components, absolute from the root <<>>.            *)
(***************************************************************************)
DotDot == ".."

Parent(p) == IF p = <<>> THEN <<>> ELSE SubSeq(p, 1, Len(p) - 1)

Last(p) == p[Len(p)]

\* Path::join with a relative, single-component name.
join(p, name) == Append(p, name)

NoName == ""

\* Path::file_name: None (NoName) for the root and for a path ending in "..".
file_name(p) == IF p = <<>> \/ Last(p) = DotDot THEN NoName ELSE Last(p)

IsPrefix(p, q) == Len(p) <= Len(q) /\ SubSeq(q, 1, Len(p)) = p

(***************************************************************************)
(* Filesystem nodes.  mode: "rw" (0o7xx), "ro" (0o5xx), "no" (0o000).      *)
(***************************************************************************)
Node(kind, mode, content, target) ==
    [kind |-> kind, mode |-> mode, content |-> content, target |-> target]

DirNode(mode) == Node("Directory", mode, "", <<>>)
RegNode(mode, content) == Node("Regular", mode, content, <<>>)
LinkNode(target) == Node("Symlink", "rw", "", target)
FifoNode(mode) == Node("Fifo", mode, "", <<>>)
SockNode == Node("Socket", "rw", "", <<>>)
BlkNode(mode, content) == Node("BlockDevice", mode, content, <<>>)
ChrNode(mode, content) == Node("CharacterDevice", mode, content, <<>>)

Error(path, msg) == [path |-> path, msg |-> msg]
NoError == Error(<<>>, "")

(***************************************************************************)
(* Path resolution as the kernel does it: component by component, ".."    *)
(* steps to the parent, a symlink in the middle of the path is followed,   *)
(* the final one only when followFinal.  Result: the resolved path, whether*)
(* a node is there, or the errno text.                                     *)
(***************************************************************************)
RECURSIVE Walk(_, _, _, _, _)
Walk(f, cur, rest, followFinal, hops) ==
    IF rest = <<>> THEN [err |-> "", path |-> cur, present |-> TRUE]
    ELSE IF f[cur].kind # "Directory"
         THEN [err |-> "Not a directory", path |-> cur, present |-> FALSE]
    ELSE LET n == Head(rest)
             r == Tail(rest)
             q == Append(cur, n)
         IN IF n = DotDot THEN Walk(f, Parent(cur), r, followFinal, hops)
            ELSE IF f[cur].mode = "no"
                 THEN [err |-> "Permission denied", path |-> q, present |-> FALSE]
            ELSE IF q \notin DOMAIN f
                 THEN IF r = <<>>
                      THEN [err |-> "", path |-> q, present |-> FALSE]
                      ELSE [err |-> "No such file or directory", path |-> q,
                            present |-> FALSE]
            ELSE IF f[q].kind = "Symlink" /\ (r # <<>> \/ followFinal)
                 THEN IF hops = 0
                      THEN [err |-> "Too many levels of symbolic links",
                            path |-> q, present |-> FALSE]
                      ELSE Walk(f, <<>>, f[q].target \o r, followFinal, hops - 1)
            ELSE Walk(f, q, r, followFinal, hops)

Resolve(f, p, followFinal) == Walk(f, <<>>, p, followFinal, MaxHops)

\* A new entry can be made at the resolved path q: its directory exists (Walk
\* has checked that), is writable, and the name is not too long.
CreateErr(f, q) ==
    IF Len(q) > MaxDepth THEN "File name too long"
    ELSE IF q = <<>> THEN "File exists"
    ELSE IF f[Parent(q)].mode # "rw" THEN "Permission denied"
    ELSE ""

Put(f, q, node) == [x \in DOMAIN f \cup {q} |-> IF x = q THEN node ELSE f[x]]

(***************************************************************************)
(* The filesystem collaborator (crate::filesystem).  Every call returns a  *)
(* record whose err is NoError on success and otherwise carries the path   *)
(* the call was given and the OS error text.                               *)
(***************************************************************************)
ENOENT == "No such file or directory"

\* symlink_metadata: lstat, the final symlink is not followed.
symlink_metadata(f, p) ==
    LET w == Resolve(f, p, FALSE)
    IN IF w.err # "" THEN [err |-> Error(p, w.err), kind |-> "", mode |-> ""]
       ELSE IF ~w.present THEN [err |-> Error(p, ENOENT), kind |-> "", mode |-> ""]
       ELSE [err |-> NoError, kind |-> f[w.path].kind, mode |-> f[w.path].mode]

\* file_type: the FileType variant of a path, by lstat.
file_type(f, p) == symlink_metadata(f, p)

\* open: for reading, following symlinks.
open(f, p) ==
    LET w == Resolve(f, p, TRUE)
    IN IF w.err # "" THEN [err |-> Error(p, w.err), content |-> "", mode |-> ""]
       ELSE IF ~w.present THEN [err |-> Error(p, ENOENT), content |-> "", mode |-> ""]
       ELSE IF f[w.path].mode = "no"
            THEN [err |-> Error(p, "Permission denied"), content |-> "", mode |-> ""]
       ELSE IF f[w.path].kind = "Directory"
            THEN [err |-> Error(p, "Is a directory"), content |-> "", mode |-> ""]
       ELSE [err |-> NoError, content |-> f[w.path].content, mode |-> f[w.path].mode]

Blocks == "blocks"

\* create + write: open(O_WRONLY | O_CREAT | O_TRUNC, mode), following symlinks,
\* then the bytes written.  chmod: the mode is also set on a file that was
\* already there (std::fs::copy does, fs::create does not).  Opening a FIFO
\* nobody reads blocks the caller: err.msg = Blocks.
create(f, p, mode, content, chmod) ==
    LET w == Resolve(f, p, TRUE)
    IN IF w.err # "" THEN [err |-> Error(p, w.err), fs |-> f]
       ELSE IF w.present
            THEN LET n == f[w.path]
                 IN IF n.kind = "Directory"
                    THEN [err |-> Error(p, "Is a directory"), fs |-> f]
                    ELSE IF n.mode # "rw"
                    THEN [err |-> Error(p, "Permission denied"), fs |-> f]
                    ELSE IF n.kind = "Fifo"
                    THEN [err |-> Error(p, Blocks), fs |-> f]
                    ELSE IF n.kind = "Socket"
                    THEN [err |-> Error(p, "No such device or address"), fs |-> f]
                    ELSE IF n.kind = "Regular"
                    THEN [err |-> NoError,
                          fs |-> Put(f, w.path,
                                     RegNode(IF chmod THEN mode ELSE n.mode, content))]
                    ELSE [err |-> NoError, fs |-> f]
       ELSE IF CreateErr(f, w.path) # ""
            THEN [err |-> Error(p, CreateErr(f, w.path)), fs |-> f]
       ELSE [err |-> NoError, fs |-> Put(f, w.path, RegNode(mode, content))]

\* copy: the content and the permission bits of a file, to a created or
\* truncated destination.  Copied onto itself a file is truncated before it
\* is read.
copy(f, from, to) ==
    LET src == open(f, from)
        same == LET a == Resolve(f, from, TRUE)
                    b == Resolve(f, to, TRUE)
                IN b.err = "" /\ b.present /\ a.path = b.path
    IN IF src.err # NoError THEN [err |-> src.err, fs |-> f]
       ELSE create(f, to, src.mode, IF same THEN "" ELSE src.content, TRUE)

\* mkdir, symlink and mkfifo make a new node and fail on any existing entry,
\* a dangling symlink included.
MakeNode(f, p, node) ==
    LET w == Resolve(f, p, FALSE)
    IN IF w.err # "" THEN [err |-> Error(p, w.err), fs |-> f]
       ELSE IF w.present THEN [err |-> Error(p, "File exists"), fs |-> f]
       ELSE IF CreateErr(f, w.path) # ""
            THEN [err |-> Error(p, CreateErr(f, w.path)), fs |-> f]
       ELSE [err |-> NoError, fs |-> Put(f, w.path, node)]

create_dir(f, p, mode) == MakeNode(f, p, DirNode(mode))

symlink(f, target, p) == MakeNode(f, p, LinkNode(target))

mkfifo(f, p, mode) == MakeNode(f, p, FifoNode(mode))

\* readlink: the target string, verbatim.
read_link(f, p) ==
    LET w == Resolve(f, p, FALSE)
    IN IF w.err # "" THEN [err |-> Error(p, w.err), target |-> <<>>]
       ELSE IF ~w.present THEN [err |-> Error(p, ENOENT), target |-> <<>>]
       ELSE IF f[w.path].kind # "Symlink"
            THEN [err |-> Error(p, "Invalid argument"), target |-> <<>>]
       ELSE [err |-> NoError, target |-> f[w.path].target]

\* read_dir: the names in a directory; "." and ".." are not listed.
read_dir(f, p) ==
    LET w == Resolve(f, p, TRUE)
    IN IF w.err # "" THEN [err |-> Error(p, w.err), names |-> {}]
       ELSE IF ~w.present THEN [err |-> Error(p, ENOENT), names |-> {}]
       ELSE IF f[w.path].kind # "Directory"
            THEN [err |-> Error(p, "Not a directory"), names |-> {}]
       ELSE IF f[w.path].mode = "no"
            THEN [err |-> Error(p, "Permission denied"), names |-> {}]
       ELSE [err |-> NoError,
             names |-> {Last(q) : q \in {x \in DOMAIN f :
                                          x # <<>> /\ Parent(x) = w.path}}]

(***************************************************************************)
(* State.                                                                  *)
(***************************************************************************)
VARIABLES
    fs,         \* the filesystem: absolute path -> node
    fs0,        \* the filesystem when the process started
    badEntries, \* source paths whose directory entry read_dir yields as Err
    args,       \* the command line, a sequence of paths
    status,     \* "start", "running", "returned" or "exited" (fatal)
    ret,        \* the value fcp returned
    tasks,      \* one record per copy_file call or closure call, by task id
    stderr      \* the bag of lines printed to the error stream

vars == <<fs, fs0, badEntries, args, status, ret, tasks, stderr>>

\* A task id: top is the index of the top-level source, rel the names from it
\* down to the entry.
Id(top, rel) == [top |-> top, rel |-> rel]

Task(source, dest, entryErr) ==
    [source |-> source, dest |-> dest, entryErr |-> entryErr, pc |-> "pending",
     ftype |-> "", mode |-> "", err |-> NoError, fresh |-> FALSE,
     result |-> FALSE]

Children(t) ==
    {u \in DOMAIN tasks : u.top = t.top /\ u.rel # <<>> /\ Parent(u.rel) = t.rel}

Siblings(t) ==
    {u \in DOMAIN tasks : u # t /\ Len(u.rel) = Len(t.rel)
                          /\ IF t.rel = <<>> THEN TRUE
                             ELSE u.top = t.top /\ Parent(u.rel) = Parent(t.rel)}

TopTasks == {u \in DOMAIN tasks : u.rel = <<>>}

Finished(S) == \A u \in S : tasks[u].pc \in {"done", "skipped"}

\* The results of the items of a parallel iterator that were mapped.
Results(S) == {tasks[u].result : u \in {v \in S : tasks[v].pc = "done"}}

eprintln(line) == stderr (+) SetToBag({line})

(***************************************************************************)
(* The pure parts of lib.rs.                                               *)
(***************************************************************************)
identity(item) == item

\* Mutation: all() in place of any().
all_identity(results) == results # {} /\ \A item \in results : identity(item)

\* ParallelIterator::any(identity) over the results that were produced.
any_identity(results) == \E item \in results : identity(item)

\* Mutation: the error is printed but not turned into a failure.
copy_file_swallows(err, had_error) == had_error

\* copy_file: an Err of copy_file_impl is printed and becomes true, an Ok is
\* passed on.
copy_file(err, had_error) == IF err # NoError THEN TRUE ELSE had_error

\* Mutation: the error is turned into a failure but not printed.
copy_file_silent(err) == FALSE

copy_file_prints(err) == err # NoError

\* Mutation: one argument is taken for a source and a destination.
fcp_branch_off_by_one(n) ==
    IF n = 0 THEN "fatal" ELSE IF n <= 2 THEN "single" ELSE "many"

\* fcp: the branch taken for a number of arguments.
fcp_branch(n) == IF n \in {0, 1} THEN "fatal" ELSE IF n = 2 THEN "single" ELSE "many"

\* Mutation: the whole (absolute) source path is joined, which replaces dest.
copy_many_dest_whole_path(dest, source) == source

\* copy_many: the destination of one source.
copy_many_dest(dest, source) == join(dest, file_name(source))

\* Mutation: the entry's name is not joined to the destination.
copy_directory_dest_no_join(dest, name) == dest

\* copy_directory: the destination of one entry.
copy_directory_dest(dest, name) == join(dest, name)

\* Mutation: the destination is not checked to be a directory.
copy_many_is_dir_unchecked(metadata) == TRUE

\* copy_many: the destination check.
copy_many_is_dir(metadata) == metadata.kind = "Directory"

\* Mutation: a socket is handled by the FIFO arm.
copy_file_impl_arm_socket_as_fifo(ftype) ==
    CASE ftype = "Regular" -> "copy"
      [] ftype = "Directory" -> "copy_directory"
      [] ftype = "Symlink" -> "symlink"
      [] ftype \in {"Fifo", "Socket"} -> "mkfifo"
      [] ftype \in {"BlockDevice", "CharacterDevice"} -> "device"

\* Mutation: a symlink is handled by the arm of regular files (dereferenced).
copy_file_impl_arm_follows_links(ftype) ==
    CASE ftype \in {"Regular", "Symlink"} -> "copy"
      [] ftype = "Directory" -> "copy_directory"
      [] ftype = "Fifo" -> "mkfifo"
      [] ftype = "Socket" -> "reject"
      [] ftype \in {"BlockDevice", "CharacterDevice"} -> "device"

\* Mutation: a symlink is handled by the arm of directories (traversed).
copy_file_impl_arm_traverses_links(ftype) ==
    CASE ftype = "Regular" -> "copy"
      [] ftype \in {"Directory", "Symlink"} -> "copy_directory"
      [] ftype = "Fifo" -> "mkfifo"
      [] ftype = "Socket" -> "reject"
      [] ftype \in {"BlockDevice", "CharacterDevice"} -> "device"

\* copy_file_impl: the arm of the match for a FileType.
copy_file_impl_arm(ftype) ==
    CASE ftype = "Regular" -> "copy"
      [] ftype = "Directory" -> "copy_directory"
      [] ftype = "Symlink" -> "symlink"
      [] ftype = "Fifo" -> "mkfifo"
      [] ftype = "Socket" -> "reject"
      [] ftype \in {"BlockDevice", "CharacterDevice"} -> "device"

SocketError(source) == Error(source, "sockets cannot be copied")

\* copy_file returns: the task is done, its error (if any) printed.
Return(t, err, had_error, fresh) ==
    /\ tasks' = [tasks EXCEPT ![t].pc = "done", ![t].err = err,
                              ![t].fresh = fresh,
                              ![t].result = copy_file(err, had_error)]
    /\ stderr' = IF copy_file_prints(err) THEN eprintln(err) ELSE stderr

Absent(f, p) == symlink_metadata(f, p).err # NoError

(***************************************************************************)
(* fcp and copy_many.                                                      *)
(***************************************************************************)
Sources == SubSeq(args, 1, Len(args) - 1)
Dest == args[Len(args)]

fatal(message) ==
    /\ stderr' = eprintln(message)
    /\ status' = "exited"
    /\ UNCHANGED <<fs, fs0, badEntries, args, ret, tasks>>

fcp_usage ==
    /\ status = "start"
    /\ fcp_branch(Len(args)) = "fatal"
    /\ fatal(Error(<<>>, "Please provide at least two arguments"))

fcp_single ==
    /\ status = "start"
    /\ fcp_branch(Len(args)) = "single"
    /\ tasks' = (Id(1, <<>>) :> Task(args[1], args[Len(args)], FALSE))
    /\ status' = "running"
    /\ UNCHANGED <<fs, fs0, badEntries, args, ret, stderr>>

\* Mutation: the destination is examined by stat, through a final symlink.
copy_many_metadata_follows(f, dest) ==
    LET w == Resolve(f, dest, TRUE)
    IN IF w.err # "" THEN [err |-> Error(dest, w.err), kind |-> "", mode |-> ""]
       ELSE IF ~w.present THEN [err |-> Error(dest, ENOENT), kind |-> "", mode |-> ""]
       ELSE [err |-> NoError, kind |-> f[w.path].kind, mode |-> f[w.path].mode]

\* let metadata = fs::symlink_metadata(dest): the final symlink is not followed.
copy_many_metadata(f, dest) == symlink_metadata(f, dest)

copy_many_fatal ==
    /\ status = "start"
    /\ fcp_branch(Len(args)) = "many"
    /\ LET metadata == copy_many_metadata(fs, Dest)
       IN IF metadata.err # NoError THEN fatal(metadata.err)
          ELSE /\ ~copy_many_is_dir(metadata)
               /\ fatal(Error(Dest, "is not a directory"))

copy_many_fanout ==
    /\ status = "start"
    /\ fcp_branch(Len(args)) = "many"
    /\ LET metadata == copy_many_metadata(fs, Dest)
       IN metadata.err = NoError /\ copy_many_is_dir(metadata)
    /\ tasks' = [t \in {Id(i, <<>>) : i \in 1..Len(Sources)} |->
                   Task(Sources[t.top], copy_many_dest(Dest, Sources[t.top]), FALSE)]
    /\ status' = "running"
    /\ UNCHANGED <<fs, fs0, badEntries, args, ret, stderr>>

\* The closure of copy_many for a source without a file name.
copy_many_invalid(t) ==
    /\ tasks[t].pc = "pending"
    /\ t.rel = <<>>
    /\ fcp_branch(Len(args)) = "many"
    /\ file_name(tasks[t].source) = NoName
    /\ tasks' = [tasks EXCEPT ![t].pc = "done", ![t].result = TRUE,
                              ![t].err = Error(tasks[t].source, "invalid file path")]
    /\ stderr' = eprintln(Error(tasks[t].source, "invalid file path"))
    /\ UNCHANGED <<fs, fs0, badEntries, args, status, ret>>

\* Mutation: an item may be dropped before any item is known to be true.
any_skip_eager(t) ==
    /\ tasks[t].pc = "pending"
    /\ Siblings(t) # {}
    /\ tasks' = [tasks EXCEPT ![t].pc = "skipped"]
    /\ UNCHANGED <<fs, fs0, badEntries, args, status, ret, stderr>>

\* any() has found a true item: an item not yet mapped may be dropped.
any_skip(t) ==
    /\ tasks[t].pc = "pending"
    /\ \E u \in Siblings(t) : tasks[u].pc = "done" /\ identity(tasks[u].result)
    /\ tasks' = [tasks EXCEPT ![t].pc = "skipped"]
    /\ UNCHANGED <<fs, fs0, badEntries, args, status, ret, stderr>>

fcp_return ==
    /\ status = "running"
    /\ Finished(TopTasks)
    /\ ret' = IF fcp_branch(Len(args)) = "single"
              THEN tasks[Id(1, <<>>)].result
              ELSE any_identity(Results(TopTasks))
    /\ status' = "returned"
    /\ UNCHANGED <<fs, fs0, badEntries, args, tasks, stderr>>

(***************************************************************************)
(* copy_file / copy_file_impl, one action per filesystem call.             *)
(***************************************************************************)
\* The closure of copy_directory for an entry read_dir could not read.
entry_error(t) ==
    /\ tasks[t].pc = "pending"
    /\ tasks[t].entryErr
    /\ tasks' = [tasks EXCEPT ![t].pc = "done", ![t].result = TRUE,
                              ![t].err = Error(tasks[t].source, "Input/output error")]
    /\ stderr' = eprintln(Error(tasks[t].source, "Input/output error"))
    /\ UNCHANGED <<fs, fs0, badEntries, args, status, ret>>

\* copy_file_impl: fs::file_type(source)?
classify(t) ==
    /\ tasks[t].pc = "pending"
    /\ ~tasks[t].entryErr
    /\ fcp_branch(Len(args)) = "many" /\ t.rel = <<>>
         => file_name(tasks[t].source) # NoName
    /\ LET ft == file_type(fs, tasks[t].source)
       IN IF ft.err # NoError
          THEN Return(t, ft.err, FALSE, FALSE)
          ELSE /\ tasks' = [tasks EXCEPT ![t].pc = "classified",
                                         ![t].ftype = ft.kind,
                                         ![t].mode = ft.mode]
               /\ UNCHANGED stderr
    /\ UNCHANGED <<fs, fs0, badEntries, args, status, ret>>

Classified(t, arm) ==
    /\ tasks[t].pc = "classified"
    /\ copy_file_impl_arm(tasks[t].ftype) = arm

\* FileType::Regular => fs::copy(source, dest)?
copy_regular(t) ==
    /\ Classified(t, "copy")
    /\ LET r == copy(fs, tasks[t].source, tasks[t].dest)
       IN /\ r.err.msg # Blocks
          /\ fs' = r.fs
          /\ Return(t, r.err, FALSE, Absent(fs, tasks[t].dest))
    /\ UNCHANGED <<fs0, badEntries, args, status, ret>>

\* FileType::Symlink => fs::symlink(fs::read_link(source)?, dest)?
copy_symlink(t) ==
    /\ Classified(t, "symlink")
    /\ LET l == read_link(fs, tasks[t].source)
           r == symlink(fs, l.target, tasks[t].dest)
       IN IF l.err # NoError
          THEN fs' = fs /\ Return(t, l.err, FALSE, FALSE)
          ELSE fs' = r.fs /\ Return(t, r.err, FALSE, Absent(fs, tasks[t].dest))
    /\ UNCHANGED <<fs0, badEntries, args, status, ret>>

\* FileType::Fifo(metadata) => fs::mkfifo(dest, metadata.permissions())?
copy_fifo(t) ==
    /\ Classified(t, "mkfifo")
    /\ LET r == mkfifo(fs, tasks[t].dest, tasks[t].mode)
       IN fs' = r.fs /\ Return(t, r.err, FALSE, Absent(fs, tasks[t].dest))
    /\ UNCHANGED <<fs0, badEntries, args, status, ret>>

\* FileType::Socket => return Err("{source}: sockets cannot be copied")
copy_socket(t) ==
    /\ Classified(t, "reject")
    /\ Return(t, SocketError(tasks[t].source), FALSE, FALSE)
    /\ UNCHANGED <<fs, fs0, badEntries, args, status, ret>>

\* FileType::BlockDevice | CharacterDevice => open, create, io::copy
copy_device(t) ==
    /\ Classified(t, "device")
    /\ LET o == open(fs, tasks[t].source)
           r == create(fs, tasks[t].dest, tasks[t].mode, o.content, FALSE)
       IN IF o.err # NoError
          THEN fs' = fs /\ Return(t, o.err, FALSE, FALSE)
          ELSE /\ r.err.msg # Blocks
               /\ fs' = r.fs
               /\ Return(t, r.err, FALSE, Absent(fs, tasks[t].dest))
    /\ UNCHANGED <<fs0, badEntries, args, status, ret>>

(***************************************************************************)
(* copy_directory.                                                         *)
(***************************************************************************)
\* Mutation: the error of create_dir is dropped and the listing goes on.
copy_directory_create_unchecked(t) ==
    /\ Classified(t, "copy_directory")
    /\ fs' = create_dir(fs, tasks[t].dest, tasks[t].mode).fs
    /\ tasks' = [tasks EXCEPT ![t].pc = "created", ![t].fresh = TRUE]
    /\ UNCHANGED <<fs0, badEntries, args, status, ret, stderr>>

\* fs::create_dir(dest, metadata.permissions().mode())?
copy_directory_create(t) ==
    /\ Classified(t, "copy_directory")
    /\ LET r == create_dir(fs, tasks[t].dest, tasks[t].mode)
       IN /\ fs' = r.fs
          /\ IF r.err # NoError
             THEN Return(t, r.err, FALSE, FALSE)
             ELSE /\ tasks' = [tasks EXCEPT ![t].pc = "created", ![t].fresh = TRUE]
                  /\ UNCHANGED stderr
    /\ UNCHANGED <<fs0, badEntries, args, status, ret>>

\* Mutation: a failed listing removes the directory created just before.
copy_directory_list_rollback(t) ==
    /\ tasks[t].pc = "created"
    /\ LET r == read_dir(fs, tasks[t].source)
           kids == [u \in {Id(t.top, Append(t.rel, n)) : n \in r.names} |->
                      Task(join(tasks[t].source, Last(u.rel)),
                           copy_directory_dest(tasks[t].dest, Last(u.rel)),
                           join(tasks[t].source, Last(u.rel)) \in badEntries)]
       IN IF r.err # NoError
          THEN /\ Return(t, r.err, FALSE, TRUE)
               /\ fs' = [q \in DOMAIN fs \ {Resolve(fs, tasks[t].dest, FALSE).path} |-> fs[q]]
          ELSE /\ tasks' = [tasks EXCEPT ![t].pc = "fanned"] @@ kids
               /\ UNCHANGED <<fs, stderr>>
    /\ UNCHANGED <<fs0, badEntries, args, status, ret>>

\* fs::read_dir(source)?.collect().into_par_iter(): one pending item per entry.
copy_directory_list(t) ==
    /\ tasks[t].pc = "created"
    /\ LET r == read_dir(fs, tasks[t].source)
           kids == [u \in {Id(t.top, Append(t.rel, n)) : n \in r.names} |->
                      Task(join(tasks[t].source, Last(u.rel)),
                           copy_directory_dest(tasks[t].dest, Last(u.rel)),
                           join(tasks[t].source, Last(u.rel)) \in badEntries)]
       IN IF r.err # NoError
          THEN Return(t, r.err, FALSE, TRUE)
          ELSE /\ tasks' = [tasks EXCEPT ![t].pc = "fanned"] @@ kids
               /\ UNCHANGED stderr
    /\ UNCHANGED <<fs, fs0, badEntries, args, status, ret>>

\* .any(identity): every item was mapped or dropped; Ok(any) is returned.
copy_directory_join(t) ==
    /\ tasks[t].pc = "fanned"
    /\ Finished(Children(t))
    /\ Return(t, NoError, any_identity(Results(Children(t))), TRUE)
    /\ UNCHANGED <<fs, fs0, badEntries, args, status, ret>>

(***************************************************************************)
(* The filesystems and command lines the process is started on.            *)
(***************************************************************************)
H == <<"h">>
C == <<"c">>
G == <<"g">>

\* /h and /g hold sources, /c destinations; /h/t is a file symlinks point to.
Base ==
    (<<>> :> DirNode("rw")) @@ (H :> DirNode("rw")) @@ (G :> DirNode("rw"))
    @@ (C :> DirNode("rw")) @@ (<<"h", "t">> :> RegNode("rw", "T"))

Empty == [x \in {} |-> 0]

\* The subtree of one source entry at path p, by the name of its shape.
Shape(p, shape) ==
    CASE shape = "none"   -> Empty
      [] shape = "reg"    -> (p :> RegNode("rw", "A"))
      [] shape = "regro"  -> (p :> RegNode("ro", "B"))
      [] shape = "regno"  -> (p :> RegNode("no", "A"))
      [] shape = "link"   -> (p :> LinkNode(<<"h", "t">>))
      [] shape = "linkup" -> (p :> LinkNode(H))
      [] shape = "fifo"   -> (p :> FifoNode("rw"))
      [] shape = "sock"   -> (p :> SockNode)
      [] shape = "blk"    -> (p :> BlkNode("rw", "D"))
      [] shape = "chr"    -> (p :> ChrNode("rw", "E"))
      [] shape = "dir0"   -> (p :> DirNode("rw"))
      [] shape = "dirno"  -> (p :> DirNode("no")) @@ (Append(p, "k") :> RegNode("rw", "K"))
      [] shape = "dirro"  -> (p :> DirNode("ro")) @@ (Append(p, "k") :> RegNode("rw", "K"))
      [] shape = "dir1"   -> (p :> DirNode("rw")) @@ (Append(p, "k") :> RegNode("rw", "K"))
      [] shape = "dir1no" -> (p :> DirNode("rw")) @@ (Append(p, "k") :> RegNode("no", "K"))

LeafShapes ==
    {"none", "reg", "regro", "regno", "link", "linkup", "fifo", "sock", "blk", "chr",
     "dir0", "dirno", "dirro"}

EntryShapes ==
    {"reg", "regno", "link", "linkup", "sock", "chr", "dir1", "dir1no", "dirno"}

AllNames == <<"x", "y", "z", "w", "v">>

EntryNames == {AllNames[i] : i \in 1..MaxEntries}

RECURSIVE Merge(_, _)
Merge(F, S) ==
    IF S = {} THEN Empty
    ELSE LET x == CHOOSE y \in S : TRUE IN F[x] @@ Merge(F, S \ {x})

\* A source directory at p whose entries have the shapes given by e.
DirOf(p, mode, e) ==
    (p :> DirNode(mode)) @@ Merge([n \in DOMAIN e |-> Shape(Append(p, n), e[n])], DOMAIN e)

\* What is at the destination beforehand, and the destination argument.
DestShapes == {"new", "dir", "file", "link", "orphan", "rodir", "inside"}

DestFs(d) ==
    CASE d = "new"    -> Empty
      [] d = "dir"    -> (<<"c", "d">> :> DirNode("rw"))
      [] d = "file"   -> (<<"c", "f">> :> RegNode("rw", "F"))
      [] d = "link"   -> (<<"c", "l">> :> LinkNode(<<"c", "f">>))
                         @@ (<<"c", "f">> :> RegNode("rw", "F"))
      [] d = "orphan" -> Empty
      [] d = "rodir"  -> (<<"c", "r">> :> DirNode("ro"))
      [] d = "inside" -> Empty

DestArg(d) ==
    CASE d = "new"    -> <<"c", "n">>
      [] d = "dir"    -> <<"c", "d">>
      [] d = "file"   -> <<"c", "f">>
      [] d = "link"   -> <<"c", "l">>
      [] d = "orphan" -> <<"c", "m", "n">>
      [] d = "rodir"  -> <<"c", "r", "n">>
      [] d = "inside" -> <<"h", "s", "n">>

S == <<"h", "s">>

Fixture(f, a, bad) == [fs |-> f, args |-> a, bad |-> bad]

\* fcp with too few arguments.
UsageFixtures ==
    {Fixture(Shape(S, "reg") @@ Base, a, {}) : a \in {<<>>, <<S>>}}

\* fcp SOURCE DEST, the source a single entry.
LeafFixtures ==
    {Fixture(Shape(S, k) @@ DestFs(d) @@ Base, <<S, DestArg(d)>>, {}) :
        k \in LeafShapes, d \in DestShapes}

\* fcp SOURCE DEST, the source a directory of MaxEntries entries.
DirFixtures ==
    {Fixture(DirOf(S, "rw", e) @@ DestFs(d) @@ Base, <<S, DestArg(d)>>, bad) :
        e \in [EntryNames -> EntryShapes], d \in {"new", "dir"},
        bad \in {{}, {Append(S, AllNames[1])}}}

\* fcp SOURCE DEST, the destination inside the source directory.
InsideFixtures ==
    {Fixture(DirOf(S, "rw", [n \in {AllNames[1]} |-> "reg"]) @@ Base,
             <<S, DestArg("inside")>>, {})}

\* fcp SOURCE... DEST_DIR: the sources are drawn from /h/a, /h/b, /g/a and /h/..
SourceArgs == {<<"h", "a">>, <<"h", "b">>, <<"g", "a">>, <<"h", DotDot>>}

ManyShapes == {"reg", "regno", "link", "dir1", "none"}

RECURSIVE Seqs(_, _)
\* The sequences of n elements of T.
Seqs(T, n) ==
    IF n = 0 THEN {<<>>}
    ELSE {Append(q, x) : q \in Seqs(T, n - 1), x \in T} 

Distinct(q) == \A i, j \in 1..Len(q) : i # j => q[i] # q[j]

ManyDests == {"cdir", "file", "new", "link", "taken"}

ManyDestFs(d) ==
    CASE d = "cdir" -> Empty
      [] d = "file" -> (<<"c", "f">> :> RegNode("rw", "F"))
      [] d = "new"  -> Empty
      [] d = "link" -> (<<"c", "l">> :> LinkNode(C))
      [] d = "taken" -> (<<"c", "a">> :> RegNode("rw", "F"))

ManyDestArg(d) ==
    CASE d = "cdir" -> C
      [] d = "file" -> <<"c", "f">>
      [] d = "new"  -> <<"c", "n">>
      [] d = "link" -> <<"c", "l">>
      [] d = "taken" -> C

ManyFixtures ==
    {Fixture(Shape(<<"h", "a">>, ka) @@ Shape(<<"h", "b">>, kb)
             @@ Shape(<<"g", "a">>, kg) @@ ManyDestFs(d) @@ Base,
             Append(q, ManyDestArg(d)), {}) :
        ka \in ManyShapes, kb \in {"reg", "sock"}, kg \in {"reg", "link", "dir1"},
        d \in ManyDests,
        q \in {r \in Seqs(SourceArgs, MaxSources) : Distinct(r)}}

Fixtures ==
    UsageFixtures \cup LeafFixtures \cup DirFixtures \cup InsideFixtures
    \cup ManyFixtures

Init ==
    \E x \in Fixtures :
        /\ fs = x.fs
        /\ fs0 = x.fs
        /\ badEntries = x.bad
        /\ args = x.args
        /\ status = "start"
        /\ ret = FALSE
        /\ tasks = Empty
        /\ stderr = EmptyBag

Next ==
    \/ fcp_usage
    \/ fcp_single
    \/ copy_many_fatal
    \/ copy_many_fanout
    \/ fcp_return
    \/ \E t \in DOMAIN tasks : copy_many_invalid(t)
    \/ \E t \in DOMAIN tasks : any_skip(t)
    \/ \E t \in DOMAIN tasks : entry_error(t)
    \/ \E t \in DOMAIN tasks : classify(t)
    \/ \E t \in DOMAIN tasks : copy_regular(t)
    \/ \E t \in DOMAIN tasks : copy_symlink(t)
    \/ \E t \in DOMAIN tasks : copy_fifo(t)
    \/ \E t \in DOMAIN tasks : copy_socket(t)
    \/ \E t \in DOMAIN tasks : copy_device(t)
    \/ \E t \in DOMAIN tasks : copy_directory_create(t)
    \/ \E t \in DOMAIN tasks : copy_directory_list(t)
    \/ \E t \in DOMAIN tasks : copy_directory_join(t)

Spec == Init /\ [][Next]_vars

\* Every worker of the thread pool that has an item to run runs it, and the
\* main thread goes on once its parallel iterator is done.
FairSpec == Spec /\ WF_vars(Next)

(***************************************************************************)
(* Vocabulary of the properties.                                           *)
(***************************************************************************)
Single == fcp_branch(Len(args)) = "single"
Many == fcp_branch(Len(args)) = "many"

\* The FileType of a path, "" when it cannot be classified.
KindAt(f, p) == file_type(f, p).kind

Real(f, p) == Resolve(f, p, FALSE).path

\* The entries of the tree rooted at a path, as paths relative to the root:
\* the root and everything reached through directories (never through links).
RelTree(f, root) ==
    IF Absent(f, root) THEN {}
    ELSE LET r == Real(f, root)
         IN {SubSeq(q, Len(r) + 1, Len(q)) :
               q \in {x \in DOMAIN f :
                        /\ IsPrefix(r, x)
                        /\ \A k \in Len(r)..(Len(x) - 1) :
                              f[SubSeq(x, 1, k)].kind = "Directory"}}

Devices == {"BlockDevice", "CharacterDevice"}

\* The tasks of the subtree of a task, itself included.
Subtree(t) == {u \in DOMAIN tasks : u.top = t.top /\ IsPrefix(t.rel, u.rel)}

\* The entry of a task failed to copy: its own copy attempt ended in an error.
FailedEntry(u) == tasks[u].err # NoError

Printed(line) == BagIn(line, stderr)

\* An entry of the initial filesystem that cannot be copied, whatever the order.
LeafFails(q) ==
    \/ q \in badEntries
    \/ fs0[q].kind = "Socket"
    \/ fs0[q].kind # "Symlink" /\ fs0[q].mode = "no"
    \/ /\ fs0[q].kind = "Directory" /\ fs0[q].mode = "ro"
       /\ \E x \in DOMAIN fs0 : x # q /\ IsPrefix(q, x)

EntryFails(p) == \E q \in DOMAIN fs0 : IsPrefix(p, q) /\ LeafFails(q)

EntriesOf(f, p) == read_dir(f, p).names

\* What a faithful copy of a node is: a device is copied as its bytes.
CopyOf(n) == IF n.kind \in Devices THEN RegNode(n.mode, n.content) ELSE n

Matches(src, dst) ==
    /\ RelTree(fs0, src) # {}
    /\ RelTree(fs0, src) = RelTree(fs, dst)
    /\ \A r \in RelTree(fs0, src) :
          fs[Real(fs, dst) \o r] = CopyOf(fs0[Real(fs0, src) \o r])

(***************************************************************************)
(* C1..C10.                                                                *)
(***************************************************************************)

\* C1: when fcp SOURCE DEST returns "no error", the entries under DEST are
\* exactly the entries of the source tree, at the same relative paths: none
\* is missing and none is extra.
C1_TreeMirrored ==
    (status = "returned" /\ Single /\ ~ret)
        => /\ RelTree(fs0, args[1]) # {}
           /\ RelTree(fs, args[2]) = RelTree(fs0, args[1])

\* Reached: a source directory with a nested directory was copied without error.
C1_Witness ==
    /\ status = "returned" /\ Single /\ ~ret
    /\ \E r \in RelTree(fs0, args[1]) : Len(r) = 2
    /\ Cardinality(RelTree(fs, args[2])) >= MaxEntries + 2

\* C2: a directory is copied into a fresh destination and exactly one of its
\* entries cannot be copied: the copy reports failure, and every other entry
\* was dispatched, ran to completion without error and is at the destination.
C2_PartialFailureIsolation ==
    (/\ status = "returned" /\ Single
     /\ KindAt(fs0, args[1]) = "Directory" /\ badEntries = {}
     /\ Absent(fs0, args[2]) /\ ~IsPrefix(args[1], args[2])
     /\ Cardinality({n \in EntriesOf(fs0, args[1]) :
                        EntryFails(Append(args[1], n))}) = 1)
        => /\ ret
           /\ \A n \in EntriesOf(fs0, args[1]) :
                 ~EntryFails(Append(args[1], n))
                    => /\ Id(1, <<n>>) \in DOMAIN tasks
                       /\ tasks[Id(1, <<n>>)].pc = "done"
                       /\ ~tasks[Id(1, <<n>>)].result
                       /\ ~Absent(fs, Append(args[2], n))

\* C3: a task's result is true exactly when an entry of its subtree failed to
\* copy, and the flag fcp returns is true exactly when some entry failed.
C3_FlagIffFailure ==
    /\ \A t \in DOMAIN tasks :
          tasks[t].pc = "done"
             => (tasks[t].result <=> \E u \in Subtree(t) : FailedEntry(u))
    /\ status = "returned" => (ret <=> \E u \in DOMAIN tasks : FailedEntry(u))

\* Reached: an entry two levels down failed and fcp returned true.
C3_Witness ==
    /\ status = "returned" /\ ret
    /\ \E u \in DOMAIN tasks : Len(u.rel) = 2 /\ FailedEntry(u)
    /\ \A u \in DOMAIN tasks : FailedEntry(u) => Len(u.rel) = 2

\* C4: fcp SOURCE DEST with DEST an existing directory and SOURCE a readable
\* regular file succeeds, prints nothing, and DEST/basename(SOURCE) exists.
C4_CopyInto ==
    (/\ status = "returned" /\ Single
     /\ KindAt(fs0, args[2]) = "Directory"
     /\ KindAt(fs0, args[1]) = "Regular" /\ fs0[Real(fs0, args[1])].mode = "rw")
        => /\ ~ret
           /\ stderr = EmptyBag
           /\ ~Absent(fs, join(args[2], file_name(args[1])))

\* C5: fcp A B ... D with D an existing directory, sources of pairwise distinct
\* base names, every one of them copied without error: whatever the order the
\* copies completed in, D/basename(X) matches X for every source X, and fcp
\* reports success.
C5_FanOut ==
    (/\ status = "returned" /\ Many
     /\ \A i, j \in 1..Len(Sources) :
           i # j => file_name(Sources[i]) # file_name(Sources[j])
     /\ \A u \in DOMAIN tasks : tasks[u].pc = "done" /\ ~FailedEntry(u))
        => /\ ~ret
           /\ \A i \in 1..Len(Sources) :
                 Matches(Sources[i], join(Dest, file_name(Sources[i])))

\* Reached: MaxSources sources, a directory among them, copied without error.
C5_Witness ==
    /\ status = "returned" /\ Many /\ ~ret
    /\ Len(Sources) = MaxSources
    /\ \A i, j \in 1..Len(Sources) :
          i # j => file_name(Sources[i]) # file_name(Sources[j])
    /\ \E i \in 1..Len(Sources) : KindAt(fs0, Sources[i]) = "Directory"
    /\ \A i \in 1..Len(Sources) :
          ~Absent(fs, join(Dest, file_name(Sources[i])))

UsageLine == Error(<<>>, "Please provide at least two arguments")

\* C6: with 3 or more arguments whose last one does not exist or is not a
\* directory, the invocation ends fatally before any copy: no source is
\* classified or dispatched and the filesystem is never changed.
C6_DestMustBeDirectory ==
    (Many /\ KindAt(fs0, Dest) # "Directory")
        => /\ DOMAIN tasks = {}
           /\ fs = fs0
           /\ status \in {"start", "exited"}
           /\ status = "exited" => BagCardinality(stderr) = 1

\* Reached: the invocation was ended because the last argument is a file.
C6_Witness ==
    /\ Many /\ KindAt(fs0, Dest) = "Regular"
    /\ status = "exited"
    /\ Printed(Error(Dest, "is not a directory"))

\* C7: with 0 or 1 arguments fcp ends with the usage error at once: no copy is
\* attempted and the filesystem is never changed.
C7_TooFewArguments ==
    Len(args) < 2
        => /\ DOMAIN tasks = {}
           /\ fs = fs0
           /\ status \in {"start", "exited"}
           /\ status = "exited" => stderr = SetToBag({UsageLine})

\* Reached: fcp was given one argument and has exited.
C7_Witness == Len(args) = 1 /\ status = "exited" /\ Printed(UsageLine)

\* C8: the step that handles an entry classified as a socket ends its copy
\* with the error "<source>: sockets cannot be copied", printed once, makes
\* the result true and leaves the filesystem as it was.
C8_SocketRejected ==
    [][\A t \in DOMAIN tasks :
          (/\ tasks[t].pc = "classified" /\ tasks[t].ftype = "Socket"
           /\ tasks'[t] # tasks[t])
             => /\ fs' = fs
                /\ tasks'[t].pc = "done"
                /\ tasks'[t].result
                /\ tasks'[t].err = SocketError(tasks[t].source)
                /\ CopiesIn(SocketError(tasks[t].source), stderr')
                     = CopiesIn(SocketError(tasks[t].source), stderr) + 1]_vars

\* Reached: a socket inside a copied directory was rejected, nothing is at its
\* destination.
C8_Witness ==
    \E t \in DOMAIN tasks :
        /\ t.rel # <<>>
        /\ tasks[t].ftype = "Socket" /\ tasks[t].pc = "done"
        /\ Printed(SocketError(tasks[t].source))
        /\ Absent(fs, tasks[t].dest)

\* C9: when the source of a copy cannot be classified, the classifying step
\* ends the copy of that entry with a failure, prints an error that names the
\* source path, and creates nothing.
C9_UnclassifiableSource ==
    [][\A t \in DOMAIN tasks :
          (classify(t) /\ file_type(fs, tasks[t].source).err # NoError)
             => /\ fs' = fs
                /\ tasks'[t].pc = "done"
                /\ tasks'[t].result
                /\ tasks'[t].err.path = tasks[t].source
                /\ CopiesIn(tasks'[t].err, stderr')
                     = CopiesIn(tasks'[t].err, stderr) + 1
                /\ Absent(fs, tasks[t].dest) => Absent(fs', tasks[t].dest)]_vars

\* Reached: the source of fcp SOURCE DEST does not exist; the copy has failed
\* and DEST does not exist.
C9_Witness ==
    /\ Single /\ status = "returned" /\ ret
    /\ Absent(fs0, args[1]) /\ Absent(fs0, args[2])
    /\ Absent(fs, args[2])
    /\ \E l \in BagToSet(stderr) : l.path = args[1]

\* C10 as claimed: every entry copied without error has, at its destination,
\* an entry of the type the source was classified as, whatever that type.
C10_EveryTypeKept ==
    \A t \in DOMAIN tasks :
        (tasks[t].pc = "done" /\ ~FailedEntry(t) /\ tasks[t].ftype # "")
            => /\ KindAt(fs, tasks[t].dest) = tasks[t].ftype
               /\ tasks[t].ftype = "Symlink"
                    => read_link(fs, tasks[t].dest).target
                         = read_link(fs, tasks[t].source).target

\* C10, amended: an entry copied without error to a destination path that
\* held nothing when it was written is, at the destination, of the type the
\* source was classified as (a symlink with the same target string), except
\* that a block or character device is copied as a regular file.
C10_TypeFidelity ==
    \A t \in DOMAIN tasks :
        (/\ tasks[t].pc \in {"done", "created", "fanned"}
         /\ ~FailedEntry(t) /\ tasks[t].ftype # "" /\ tasks[t].fresh)
            => /\ KindAt(fs, tasks[t].dest)
                    = IF tasks[t].ftype \in Devices THEN "Regular"
                      ELSE tasks[t].ftype
               /\ tasks[t].ftype = "Symlink"
                    => read_link(fs, tasks[t].dest).target
                         = read_link(fs, tasks[t].source).target

\* Reached: a symlink and a character device of one directory were both copied
\* without error.
C10_Witness ==
    \E t, u \in DOMAIN tasks :
        /\ tasks[t].ftype = "Symlink" /\ tasks[u].ftype = "CharacterDevice"
        /\ tasks[t].pc = "done" /\ tasks[u].pc = "done"
        /\ ~FailedEntry(t) /\ ~FailedEntry(u)
        /\ tasks[t].fresh /\ tasks[u].fresh
        /\ KindAt(fs, tasks[t].dest) = "Symlink"
        /\ KindAt(fs, tasks[u].dest) = "Regular"

(***************************************************************************)
(* C11..C19.                                                               *)
(***************************************************************************)
ParentTask(u) == Id(u.top, Parent(u.rel))

\* C11: whenever the item of a directory entry exists (pending, running or
\* finished), the directory it is copied into exists at the destination: the
\* parent's create_dir has succeeded before any child's copy can begin.
C11_ParentBeforeChildren ==
    \A u \in DOMAIN tasks :
        u.rel # <<>>
            => /\ tasks[ParentTask(u)].pc \in {"fanned", "done"}
               /\ KindAt(fs, tasks[ParentTask(u)].dest) = "Directory"
               /\ tasks[u].dest = join(tasks[ParentTask(u)].dest, Last(u.rel))

\* Reached: an entry two levels down has been classified; the directory it is
\* copied into is at the destination.
C11_Witness ==
    \E u \in DOMAIN tasks :
        /\ Len(u.rel) = 2
        /\ tasks[u].pc = "classified"
        /\ KindAt(fs, Parent(tasks[u].dest)) = "Directory"

\* A source of a multi-source invocation that can be copied whatever the
\* order: it has a file name, exists, holds nothing that fails, and nothing is
\* at its destination beforehand.
CopyableSource(i) ==
    /\ file_name(Sources[i]) # NoName
    /\ ~Absent(fs0, Sources[i])
    /\ ~EntryFails(Real(fs0, Sources[i]))
    /\ Absent(fs0, join(Dest, file_name(Sources[i])))
    /\ \A j \in 1..Len(Sources) :
          j # i => file_name(Sources[j]) # file_name(Sources[i])

\* C12: in a multi-source invocation where one source has no file name and
\* every other source can be copied, the result is "failed", one line names
\* the invalid source, and every other source was dispatched, copied without
\* error and matches at DEST/basename.
C12_InvalidSourceIsolated ==
    (/\ status = "returned" /\ Many
     /\ \E i \in 1..Len(Sources) :
           /\ file_name(Sources[i]) = NoName
           /\ \A j \in 1..Len(Sources) : j # i => CopyableSource(j))
        => /\ ret
           /\ \A i \in 1..Len(Sources) :
                 IF file_name(Sources[i]) = NoName
                 THEN Printed(Error(Sources[i], "invalid file path"))
                 ELSE /\ tasks[Id(i, <<>>)].pc = "done"
                      /\ ~tasks[Id(i, <<>>)].result
                      /\ Matches(Sources[i], join(Dest, file_name(Sources[i])))

\* C13: in a multi-source invocation where the destination directory of one
\* source directory cannot be created (something is already there) and every
\* other source can be copied: the result is "failed", the error names that
\* destination, no entry of the directory is dispatched or copied, and every
\* other source was dispatched, copied without error and matches.
C13_CreateDirFailureIsolated ==
    (/\ status = "returned" /\ Many
     /\ \E i \in 1..Len(Sources) :
           /\ KindAt(fs0, Sources[i]) = "Directory"
           /\ ~Absent(fs0, copy_many_dest(Dest, Sources[i]))
           /\ \A j \in 1..Len(Sources) : j # i => CopyableSource(j))
        => /\ ret
           /\ \A i \in 1..Len(Sources) :
                 IF ~CopyableSource(i)
                 THEN /\ Children(Id(i, <<>>)) = {}
                      /\ tasks[Id(i, <<>>)].err.path = tasks[Id(i, <<>>)].dest
                      /\ Printed(tasks[Id(i, <<>>)].err)
                      /\ fs[tasks[Id(i, <<>>)].dest] = fs0[tasks[Id(i, <<>>)].dest]
                 ELSE /\ tasks[Id(i, <<>>)].pc = "done"
                      /\ ~tasks[Id(i, <<>>)].result
                      /\ Matches(Sources[i], join(Dest, file_name(Sources[i])))

\* A task between the classification of its source and the write to its
\* destination.
Writing(t) == tasks[t].pc = "classified"

\* C14: no two tasks are ever about to write the same destination path: the
\* destinations of the entries of one directory, and of the sources of one
\* invocation, are pairwise different.
C14_ExclusiveDestinations ==
    \A t, u \in DOMAIN tasks :
        (t # u /\ Writing(t) /\ Writing(u)) => tasks[t].dest # tasks[u].dest

\* C14, amended: two different tasks have the same destination path only if
\* they are two top-level sources with the same base name; the entries of one
\* directory, and entries of different directories, never share one.
C14_ExclusiveUnlessSameName ==
    \A t, u \in DOMAIN tasks :
        (/\ t # u
         /\ \/ t.rel # <<>>
            \/ u.rel # <<>>
            \/ file_name(tasks[t].source) # file_name(tasks[u].source))
            => tasks[t].dest # tasks[u].dest

\* Reached: a top-level source and an entry of another top-level source, a
\* directory, are both about to write.
C14_Witness ==
    \E t, u \in DOMAIN tasks :
        /\ t.rel = <<>> /\ u.rel # <<>> /\ t.top # u.top
        /\ Writing(t) /\ Writing(u)
        /\ tasks[t].dest # tasks[u].dest

\* The destination of fcp SOURCE DEST holds nothing beforehand, can be created,
\* and is not inside the source.
FreshDest ==
    /\ Single
    /\ Resolve(fs0, args[2], FALSE).err = ""
    /\ Absent(fs0, args[2])
    /\ CreateErr(fs0, Real(fs0, args[2])) = ""
    /\ ~IsPrefix(args[1], args[2])

\* The copy of an entry of the source tree fails at the entry itself: its
\* directory entry is unreadable, it is a socket, it cannot be read, or its
\* destination directory was created read-only.
OwnFails(q) ==
    \/ q \in badEntries
    \/ fs0[q].kind = "Socket"
    \/ fs0[q].kind # "Symlink" /\ fs0[q].mode = "no"
    \/ q # Real(fs0, args[1]) /\ fs0[Parent(q)].mode = "ro"

\* The entries of the operation that cannot be copied: the entries of the source
\* tree that fail, below directories that do not.
Uncopyable ==
    IF Absent(fs0, args[1]) THEN {args[1]}
    ELSE LET r == Real(fs0, args[1])
         IN {q \in DOMAIN fs0 :
               /\ IsPrefix(r, q)
               /\ OwnFails(q)
               /\ \A k \in Len(r)..(Len(q) - 1) :
                     /\ fs0[SubSeq(q, 1, k)].kind = "Directory"
                     /\ ~OwnFails(SubSeq(q, 1, k))}

\* C15: when fcp SOURCE DEST (DEST fresh) has returned, the number of lines on
\* the error stream is the number of entries that cannot be copied: one line
\* per failing entry, none for the others, none at all when nothing fails.
C15_OneLinePerFailure ==
    (status = "returned" /\ FreshDest)
        => BagCardinality(stderr) = Cardinality(Uncopyable)

\* The sources of fcp SOURCE... DEST_DIR go to different, absent names of an
\* existing directory: the outcome of each is fixed by the initial filesystem.
FixedOutcomes ==
    /\ Many
    /\ copy_many_is_dir(symlink_metadata(fs0, Dest))
    /\ \A i \in 1..Len(Sources) :
          file_name(Sources[i]) # NoName
              => /\ Absent(fs0, join(Dest, file_name(Sources[i])))
                 /\ \A j \in 1..Len(Sources) :
                       j # i => file_name(Sources[j]) # file_name(Sources[i])

\* A source of fcp SOURCE... DEST_DIR that cannot be copied.
SourceFails(i) ==
    \/ file_name(Sources[i]) = NoName
    \/ Absent(fs0, Sources[i])
    \/ EntryFails(Real(fs0, Sources[i]))

\* The flag as the initial filesystem and the command line determine it.
ExpectedFlag ==
    IF Single THEN Uncopyable # {}
    ELSE \E i \in 1..Len(Sources) : SourceFails(i)

\* C16: the flag fcp returns is a function of the initial filesystem and the
\* command line alone: whatever the order in which sibling copies ran and
\* completed (and whichever were dropped by the reduction), it is true exactly
\* when some source or entry cannot be copied.
C16_FlagIndependentOfSchedule ==
    (status = "returned" /\ (FreshDest \/ FixedOutcomes))
        => (ret <=> ExpectedFlag)

\* fcp has returned the flag of a run in which the reduction dropped an item.
C16_Witness ==
    /\ status = "returned"
    /\ FreshDest \/ FixedOutcomes
    /\ ret
    /\ \E t, u \in DOMAIN tasks :
          /\ u \in Siblings(t)
          /\ tasks[t].pc = "skipped"
          /\ tasks[u].pc = "done"

\* A symlink that was copied is at the destination with the target string of
\* the source; only directories are listed; no entry is behind two items.
C17_NeverTraversed ==
    /\ \A t \in DOMAIN tasks :
          /\ Children(t) # {} => tasks[t].ftype = "Directory"
          /\ tasks[t].pc \in {"created", "fanned"} => tasks[t].ftype = "Directory"
          /\ (tasks[t].ftype = "Symlink" /\ tasks[t].pc = "done"
                /\ tasks[t].err = NoError)
                => /\ KindAt(fs, tasks[t].dest) = "Symlink"
                   /\ read_link(fs, tasks[t].dest).target
                        = read_link(fs0, tasks[t].source).target
    /\ \A t, u \in DOMAIN tasks :
          (t # u /\ ~Absent(fs0, tasks[t].source) /\ ~Absent(fs0, tasks[u].source))
              => Real(fs0, tasks[t].source) # Real(fs0, tasks[u].source)

\* An item is made once and never handed to copy_file a second time.
C17_DispatchedOnce ==
    \A t \in DOMAIN tasks :
        /\ t \in DOMAIN tasks'
        /\ tasks'[t].source = tasks[t].source
        /\ tasks[t].pc # "pending" => tasks'[t].pc # "pending"
        /\ tasks[t].pc \in {"done", "skipped"} => tasks'[t] = tasks[t]

\* C17: the walk never follows a symlink (a symlink is re-created with its
\* target verbatim and never listed), every entry is dispatched at most once,
\* and the copy terminates, also on trees with a symlink to an ancestor.
C17_OnePassDescent ==
    /\ []C17_NeverTraversed
    /\ [][C17_DispatchedOnce]_vars
    /\ <>(status \in {"returned", "exited"})

\* A symlink to an ancestor of the source directory was copied as a symlink
\* and the copy has returned.
C17_Witness ==
    /\ status = "returned"
    /\ \E t \in DOMAIN tasks :
          /\ t.rel # <<>>
          /\ tasks[t].ftype = "Symlink"
          /\ tasks[t].pc = "done"
          /\ tasks[t].err = NoError
          /\ IsPrefix(read_link(fs0, tasks[t].source).target, tasks[t].source)
          /\ fs[tasks[t].dest] = LinkNode(read_link(fs0, tasks[t].source).target)

\* The listing of the source directory of an item failed, after its destination
\* directory was created.
ListingFailed(t) ==
    /\ tasks[t].pc = "done"
    /\ tasks[t].ftype = "Directory"
    /\ tasks[t].fresh
    /\ tasks[t].err # NoError

\* After a failed listing the subtree has reported its error, has no item, and
\* its destination directory is there, with nothing in it.
C18_ListingFailureKeepsDirectory ==
    \A t \in DOMAIN tasks :
        ListingFailed(t)
            => /\ tasks[t].result
               /\ Printed(tasks[t].err)
               /\ tasks[t].err.path = tasks[t].source
               /\ Children(t) = {}
               /\ KindAt(fs, tasks[t].dest) = "Directory"
               /\ \A q \in DOMAIN fs :
                     IsPrefix(Real(fs, tasks[t].dest), q) => q = Real(fs, tasks[t].dest)

\* No step takes an entry away from the filesystem or changes its type.
C18_NothingRemoved ==
    \A q \in DOMAIN fs : q \in DOMAIN fs' /\ fs'[q].kind = fs[q].kind

\* C18: when listing the source directory fails in copy_directory, the subtree
\* reports an error and no child is dispatched, and the destination directory
\* created just before stays, empty; no step ever removes an entry.
C18_NoRollback ==
    /\ []C18_ListingFailureKeepsDirectory
    /\ [][C18_NothingRemoved]_vars

\* The listing of an entry of the source directory failed, while a sibling was
\* copied, and fcp has returned.
C18_Witness ==
    /\ status = "returned"
    /\ \E t, u \in DOMAIN tasks :
          /\ ListingFailed(t)
          /\ u \in Siblings(t)
          /\ tasks[u].pc = "done"
          /\ tasks[u].err = NoError
          /\ KindAt(fs, tasks[t].dest) = "Directory"

\* C19: fcp SOURCE... DEST_DIR examines DEST_DIR without following a final
\* symlink: when it is a symlink, also one to an existing directory, no source
\* is copied, nothing changes, and the process exits on "is not a directory".
C19_SymlinkDestRejected ==
    (Many /\ KindAt(fs0, Dest) = "Symlink")
        => /\ DOMAIN tasks = {}
           /\ fs = fs0
           /\ status \in {"start", "exited"}
           /\ status = "exited"
                => stderr = SetToBag({Error(Dest, "is not a directory")})

\* fcp SOURCE... DEST_DIR has exited, DEST_DIR a symlink to an existing directory.
C19_Witness ==
    /\ Many
    /\ status = "exited"
    /\ KindAt(fs0, Dest) = "Symlink"
    /\ KindAt(fs0, read_link(fs0, Dest).target) = "Directory"

====
